---- MODULE Spec2Model ----
(***************************************************************************)
(* A model of sinaps, a compile-time byte-signature scanner.               *)
(*                                                                         *)
(* Spec     : pattern<Mask...> is compiled (raw_value, size, cursor_pos,   *)
(*            value, groups) and find<Pattern>(data, size, step_size)      *)
(*            scans the buffer, one candidate position per step.           *)
(* SpecRaw  : find(data, size, pattern, pattern_size, step_size), the      *)
(*            ungrouped scan over a raw token list.                        *)
(* SpecStr  : sizeOfPatternString / tokenizePatternString over a pattern   *)
(*            string.                                                      *)
(* SpecPrim : the mask primitives (word, string, sequence, ...) are        *)
(*            instantiated from their template arguments, then as Spec.    *)
(* SpecFindStr : find<FixedString S>: tokenize, make_pattern, then find.   *)
(* SpecRender  : pattern::to_string, and the rendering compiled again.     *)
(*                                                                         *)
(* Array indices, offsets and positions are 0-based as in the source; a    *)
(* TLA+ sequence s holds source element k at s[k + 1].                     *)
(***************************************************************************)
EXTENDS Integers, Sequences, FiniteSets, TLC

VARIABLES
    prims,      \* the mask primitives as written, before their expansion
    masks,      \* the template arguments Mask... of pattern<Mask...>
    tokens,     \* the token_t list handed to the raw-token find
    str,        \* the characters of the FixedString S (without its NUL)
    N,          \* the template argument N = sizeOfPatternString<S>()
    data,       \* the buffer; its length is the size argument
    step_size,  \* the step_size argument
    cev,        \* std::is_constant_evaluated() of the call
    pat,        \* the compiled pattern (NoPattern before compilation)
    i,          \* the loop variable i of find
    last,       \* the last candidate position examined (-1: none yet)
    reads,      \* the buffer indices read so far
    cmps,       \* group comparisons started at the last candidate position
    result,     \* the value returned
    pc          \* where the call stands

vars == <<prims, masks, tokens, str, N, data, step_size, cev, pat, i, last, reads, cmps, result, pc>>

(***************************************************************************)
(* Bounds of the model.                                                    *)
(***************************************************************************)
MaxMasks == 3
MaxSize == 3
MaxStep == 2
MaxTokens == 3
MaxStr == 4
MaxPrims == 2
\* size_t is modelled SizeBits wide; every size, offset and step of the
\* model is far below 2^SizeBits, so only size - pattern_size wraps.
SizeBits == 8

SizeMod == 2 ^ SizeBits

not_found == -1

(***************************************************************************)
(* uint8_t arithmetic.                                                     *)
(***************************************************************************)
RECURSIVE BitAnd(_, _)
BitAnd(a, b) ==
    IF a = 0 \/ b = 0 THEN 0
    ELSE (IF a % 2 = 1 /\ b % 2 = 1 THEN 1 ELSE 0) + 2 * BitAnd(a \div 2, b \div 2)

RECURSIVE BitOr(_, _)
BitOr(a, b) ==
    IF a = 0 THEN b
    ELSE IF b = 0 THEN a
    ELSE (IF a % 2 = 1 \/ b % 2 = 1 THEN 1 ELSE 0) + 2 * BitOr(a \div 2, b \div 2)

(***************************************************************************)
(* The value of a char, for the characters the model writes.               *)
(***************************************************************************)
Ascii(c) ==
    CASE c = "NUL" -> 0
      [] c = " " -> 32
      [] c = "!" -> 33
      [] c = "&" -> 38
      [] c = "," -> 44
      [] c = "." -> 46
      [] c = "?" -> 63
      [] c = "^" -> 94
      [] c = "0" -> 48
      [] c = "1" -> 49
      [] c = "2" -> 50
      [] c = "3" -> 51
      [] c = "4" -> 52
      [] c = "5" -> 53
      [] c = "6" -> 54
      [] c = "7" -> 55
      [] c = "8" -> 56
      [] c = "9" -> 57
      [] c = "A" -> 65
      [] c = "B" -> 66
      [] c = "C" -> 67
      [] c = "D" -> 68
      [] c = "E" -> 69
      [] c = "F" -> 70
      [] c = "G" -> 71
      [] c = "H" -> 72
      [] c = "T" -> 84
      [] c = "W" -> 87
      [] c = "a" -> 97
      [] c = "b" -> 98
      [] c = "c" -> 99
      [] c = "d" -> 100
      [] c = "e" -> 101
      [] c = "f" -> 102
      [] c = "g" -> 103
      [] c = "h" -> 104
      [] c = "i" -> 105
      [] c = "k" -> 107
      [] c = "l" -> 108
      [] c = "m" -> 109
      [] c = "n" -> 110
      [] c = "o" -> 111
      [] c = "p" -> 112
      [] c = "r" -> 114
      [] c = "s" -> 115
      [] c = "t" -> 116
      [] c = "u" -> 117
      [] c = "w" -> 119

(***************************************************************************)
(* token_t and its constructors.                                           *)
(***************************************************************************)
\* A slip: the type is left at masked whatever the mask.
TokenMasked_unnormalised(byte, mask) == [type |-> "masked", byte |-> byte, mask |-> mask]

TokenMasked(byte, mask) ==
    [type |-> IF mask = 0 THEN "wildcard" ELSE IF mask = 255 THEN "byte" ELSE "masked",
     byte |-> byte, mask |-> mask]

TokenByte(byte) == [type |-> "byte", byte |-> byte, mask |-> 0]

TokenType(type) == [type |-> type, byte |-> 0, mask |-> 0]

TokenWildcard == [type |-> "wildcard", byte |-> 0, mask |-> 0]

(***************************************************************************)
(* Mask primitives: a declared size and the tokens they expand to.         *)
(***************************************************************************)
RECURSIVE tuple_repeat(_, _)
tuple_repeat(n, t) == IF n = 0 THEN <<>> ELSE t \o tuple_repeat(n - 1, t)

mask_byte(n) == [size |-> 1, value |-> <<TokenByte(n)>>]

mask_any(n) == [size |-> n, value |-> tuple_repeat(n, <<TokenWildcard>>)]

mask_cursor == [size |-> 0, value |-> <<TokenType("cursor")>>]

mask_masked(n, m) == [size |-> 1, value |-> <<TokenMasked(n, m)>>]

(***************************************************************************)
(* word<N>, dword<N>, qword<N>.  N is an unsigned integer of 16, 32 or 64  *)
(* bits, held as 1, 2 or 4 limbs of 16 bits, least significant limb first. *)
(***************************************************************************)
\* N >> s.
shift_right(n, s) ==
    LET q == s \div 16
        b == s % 16
        at(k) == IF k <= Len(n) THEN n[k] ELSE 0
    IN [k \in 1..Len(n) |-> (at(k + q) \div (2 ^ b)) + (at(k + q + 1) % (2 ^ b)) * (2 ^ (16 - b))]

\* N & 0xFF, passed to token_t(uint8_t).
and_ff(n) == BitAnd(n[1], 255)

\* The conversion of N to the uint8_t parameter of token_t.
to_uint8(n) == n[1] % 256

\* A slip: the most significant byte first.
mask_dword_be(n) ==
    [size |-> 4,
     value |-> <<TokenByte(to_uint8(shift_right(n, 24))),
                 TokenByte(and_ff(shift_right(n, 16))),
                 TokenByte(and_ff(shift_right(n, 8))),
                 TokenByte(and_ff(n))>>]

mask_qword(n) ==
    [size |-> 8,
     value |-> <<TokenByte(and_ff(n)),
                 TokenByte(and_ff(shift_right(n, 8))),
                 TokenByte(and_ff(shift_right(n, 16))),
                 TokenByte(and_ff(shift_right(n, 24))),
                 TokenByte(and_ff(shift_right(n, 32))),
                 TokenByte(and_ff(shift_right(n, 40))),
                 TokenByte(and_ff(shift_right(n, 48))),
                 TokenByte(to_uint8(shift_right(n, 56)))>>]

mask_dword(n) ==
    [size |-> 4,
     value |-> <<TokenByte(and_ff(n)),
                 TokenByte(and_ff(shift_right(n, 8))),
                 TokenByte(and_ff(shift_right(n, 16))),
                 TokenByte(to_uint8(shift_right(n, 24)))>>]

mask_word(n) ==
    [size |-> 2,
     value |-> <<TokenByte(and_ff(n)), TokenByte(to_uint8(shift_right(n, 8)))>>]

(***************************************************************************)
(* string<S> and sequence<N, Mask...>.                                     *)
(***************************************************************************)
\* getTupleImpl<I>(): the tokens of S[0] .. S[I - 1].
RECURSIVE getTupleImpl(_, _)
getTupleImpl(s, I) ==
    IF I = 0 THEN <<>> ELSE getTupleImpl(s, I - 1) \o <<TokenByte(Ascii(s[I]))>>

\* A slip: the terminating NUL of the literal is taken into the pattern.
mask_string_with_nul(s) ==
    [size |-> Len(s) + 1, value |-> getTupleImpl(s, Len(s)) \o <<TokenByte(0)>>]

mask_string(s) == [size |-> Len(s), value |-> getTupleImpl(s, Len(s))]

\* (Mask::size + ...) of sequence.
RECURSIVE sequence_size(_)
sequence_size(ms) == IF ms = <<>> THEN 0 ELSE Head(ms).size + sequence_size(Tail(ms))

\* seqValue = std::tuple_cat(Mask::value...).
RECURSIVE seqValue(_)
seqValue(ms) == IF ms = <<>> THEN <<>> ELSE Head(ms).value \o seqValue(Tail(ms))

\* A slip: the inner tokens once, whatever N.
mask_sequence_once(n, ms) == [size |-> sequence_size(ms) * n, value |-> seqValue(ms)]

mask_sequence(n, ms) ==
    [size |-> sequence_size(ms) * n, value |-> tuple_repeat(n, seqValue(ms))]

(***************************************************************************)
(* A mask primitive as written: the template and its arguments.            *)
(***************************************************************************)
Prim(kind, targs) == [kind |-> kind, targs |-> targs]

\* The struct a template-id names: its size and its value.
RECURSIVE Instantiate(_)
Instantiate(d) ==
    CASE d.kind = "byte" -> mask_byte(d.targs[1])
      [] d.kind = "any" -> mask_any(d.targs[1])
      [] d.kind = "cursor" -> mask_cursor
      [] d.kind = "masked" -> mask_masked(d.targs[1], d.targs[2])
      [] d.kind = "word" -> mask_word(d.targs[1])
      [] d.kind = "dword" -> mask_dword(d.targs[1])
      [] d.kind = "qword" -> mask_qword(d.targs[1])
      [] d.kind = "string" -> mask_string(d.targs[1])
      [] d.kind = "sequence" ->
            mask_sequence(d.targs[1],
                          [k \in 1..Len(d.targs[2]) |-> Instantiate(d.targs[2][k])])

(***************************************************************************)
(* pattern<Mask...>: the compile-time members.                             *)
(***************************************************************************)
RECURSIVE pattern_raw_value(_)
pattern_raw_value(ms) ==
    IF ms = <<>> THEN <<>> ELSE Head(ms).value \o pattern_raw_value(Tail(ms))

\* A slip: the cursors are counted into the size.
pattern_size_raw(ms) == Len(pattern_raw_value(ms))

RECURSIVE pattern_size(_)
pattern_size(ms) ==
    IF ms = <<>> THEN 0 ELSE Head(ms).size + pattern_size(Tail(ms))

\* The fold ((raw[I] is a cursor ? pos = I : void()), ...) from index I on.
RECURSIVE cursor_pos_fold(_, _, _)
cursor_pos_fold(raw, I, pos) ==
    IF I >= Len(raw) THEN pos
    ELSE cursor_pos_fold(raw, I + 1, IF raw[I + 1].type = "cursor" THEN I ELSE pos)

\* A slip: the position after the cursor is recorded.
cursor_pos_after(raw) ==
    IF \E k \in 1..Len(raw) : raw[k].type = "cursor" THEN cursor_pos_fold(raw, 0, 0) + 1 ELSE 0

pattern_cursor_pos(raw) == cursor_pos_fold(raw, 0, 0)

pattern_has_cursor(raw) == \E k \in 1..Len(raw) : raw[k].type = "cursor"

\* The fold filling value[index++] with every token that is no cursor; ok
\* turns FALSE on a write past the size slots of the array.
RECURSIVE value_fold(_, _, _, _, _)
value_fold(raw, I, value, index, ok) ==
    IF I >= Len(raw) THEN [value |-> value, index |-> index, ok |-> ok]
    ELSE IF raw[I + 1].type = "cursor" THEN value_fold(raw, I + 1, value, index, ok)
    ELSE IF index < Len(value)
         THEN value_fold(raw, I + 1, [value EXCEPT ![index + 1] = raw[I + 1]], index + 1, ok)
         ELSE value_fold(raw, I + 1, value, index + 1, FALSE)

pattern_value(raw, size) ==
    value_fold(raw, 0, [k \in 1..size |-> TokenWildcard], 0, TRUE)

\* group_count: the fold over types counting the runs of byte tokens.
RECURSIVE group_count_fold(_, _, _, _)
group_count_fold(value, I, count, in_group) ==
    IF I >= Len(value) THEN (IF in_group THEN count + 1 ELSE count)
    ELSE IF value[I + 1].type = "byte" THEN group_count_fold(value, I + 1, count, TRUE)
    ELSE IF in_group THEN group_count_fold(value, I + 1, count + 1, FALSE)
    ELSE group_count_fold(value, I + 1, count, FALSE)

pattern_group_count(value) == group_count_fold(value, 0, 0, FALSE)

group_t(offset, count) == [offset |-> offset, count |-> count]

\* groups: the fold over types writing groups[index++] when a run closes.
RECURSIVE groups_fold(_, _, _, _, _, _, _)
groups_fold(value, I, groups, index, begin, count, in_group) ==
    IF I >= Len(value)
    THEN (IF in_group THEN [groups EXCEPT ![index + 1] = group_t(begin, count)] ELSE groups)
    ELSE IF value[I + 1].type = "byte"
         THEN (IF in_group
               THEN groups_fold(value, I + 1, groups, index, begin, count + 1, TRUE)
               ELSE groups_fold(value, I + 1, groups, index, I, 1, TRUE))
         ELSE (IF in_group
               THEN groups_fold(value, I + 1, [groups EXCEPT ![index + 1] = group_t(begin, count)],
                                index + 1, begin, count, FALSE)
               ELSE groups_fold(value, I + 1, groups, index, begin, count, FALSE))

\* A slip: the run still open at the end of the tokens is not written.
RECURSIVE groups_fold_drop_last(_, _, _, _, _, _, _)
groups_fold_drop_last(value, I, groups, index, begin, count, in_group) ==
    IF I >= Len(value) THEN groups
    ELSE IF value[I + 1].type = "byte"
         THEN (IF in_group
               THEN groups_fold_drop_last(value, I + 1, groups, index, begin, count + 1, TRUE)
               ELSE groups_fold_drop_last(value, I + 1, groups, index, I, 1, TRUE))
         ELSE (IF in_group
               THEN groups_fold_drop_last(value, I + 1,
                                          [groups EXCEPT ![index + 1] = group_t(begin, count)],
                                          index + 1, begin, count, FALSE)
               ELSE groups_fold_drop_last(value, I + 1, groups, index, begin, count, FALSE))

pattern_groups_drop_last(value) ==
    groups_fold_drop_last(value, 0, [k \in 1..pattern_group_count(value) |-> group_t(0, 0)],
                          0, 0, 0, FALSE)

pattern_groups(value) ==
    groups_fold(value, 0, [k \in 1..pattern_group_count(value) |-> group_t(0, 0)],
                0, 0, 0, FALSE)

NoPattern == [compiled |-> FALSE]

\* pattern<Mask...> as find sees it: pat::size, pat::cursor_pos, pat::value
\* (types, bytes and masks are its three projections) and pat::groups.
pattern(ms) ==
    LET raw == pattern_raw_value(ms)
        size == pattern_size(ms)
        filled == pattern_value(raw, size)
    IN [compiled |-> TRUE,
        raw_value |-> raw,
        raw_size |-> Len(raw),
        size |-> size,
        has_cursor |-> pattern_has_cursor(raw),
        cursor_pos |-> pattern_cursor_pos(raw),
        value |-> filled.value,
        filled |-> filled.index,
        in_range |-> filled.ok,
        groups |-> pattern_groups(filled.value)]

(***************************************************************************)
(* find<Pattern>(data, size, step_size): the check of one candidate        *)
(* position.  A check yields found, the indices it reads, oob (it reads at *)
(* or past size) and the number of group comparisons it starts.            *)
(***************************************************************************)
Min(S) == CHOOSE x \in S : \A y \in S : x <= y

\* size - pat::size and i += step_size in size_t.
size_sub(a, b) == (a - b) % SizeMod

size_add(a, b) == (a + b) % SizeMod

GroupRange(i0, grp) == (i0 + grp.offset)..(i0 + grp.offset + grp.count - 1)

\* The j at which the byte loop over a group stops early: data[i + j + offset]
\* lies outside the buffer or differs from pat::bytes[j + offset].
GroupStops(d, i0, p, grp) ==
    {j \in 0..(grp.count - 1) :
        \/ i0 + j + grp.offset >= Len(d)
        \/ d[i0 + j + grp.offset + 1] # p.value[j + grp.offset + 1].byte}

\* The is_constant_evaluated() branch: a byte loop per group whose break
\* leaves only the byte loop, so the next group is compared all the same.
RECURSIVE groups_bytewise(_, _, _, _, _)
groups_bytewise(d, i0, p, g, acc) ==
    IF g >= Len(p.groups) THEN acc
    ELSE LET grp == p.groups[g + 1]
             stops == GroupStops(d, i0, p, grp)
             stop == IF stops = {} THEN grp.count - 1 ELSE Min(stops)
             seen == {i0 + j + grp.offset : j \in 0..stop}
             step == [found |-> acc.found /\ stops = {},
                      oob |-> stops # {} /\ i0 + stop + grp.offset >= Len(d),
                      reads |-> acc.reads \cup seen,
                      cmps |-> acc.cmps + 1]
         IN IF step.oob THEN step ELSE groups_bytewise(d, i0, p, g + 1, step)

\* The run-time branch: one memcmp per group, and break out of the group
\* loop on the first group that differs.
RECURSIVE groups_memcmp(_, _, _, _, _)
groups_memcmp(d, i0, p, g, acc) ==
    IF g >= Len(p.groups) THEN acc
    ELSE LET grp == p.groups[g + 1]
             range == GroupRange(i0, grp)
             outside == \E k \in range : k >= Len(d)
             equal == \A j \in 0..(grp.count - 1) :
                         d[i0 + j + grp.offset + 1] = p.value[j + grp.offset + 1].byte
             step == [found |-> (~outside) /\ equal,
                      oob |-> outside,
                      reads |-> acc.reads \cup range,
                      cmps |-> acc.cmps + 1]
         IN IF outside \/ ~equal THEN step ELSE groups_memcmp(d, i0, p, g + 1, step)

NoReads == [found |-> TRUE, oob |-> FALSE, reads |-> {}, cmps |-> 0]

check_groups(d, i0, p, ce) ==
    IF ce THEN groups_bytewise(d, i0, p, 0, NoReads) ELSE groups_memcmp(d, i0, p, 0, NoReads)

\* The pass over the masked tokens: the first j whose type is masked and
\* whose byte is outside the buffer or fails (data[i + j] & mask) == byte.
MaskedStops(d, i0, p) ==
    {j \in 0..(p.size - 1) :
        /\ p.value[j + 1].type = "masked"
        /\ \/ i0 + j >= Len(d)
           \/ BitAnd(d[i0 + j + 1], p.value[j + 1].mask) # p.value[j + 1].byte}

check_masked(d, i0, p) ==
    LET stops == MaskedStops(d, i0, p)
        stop == IF stops = {} THEN p.size - 1 ELSE Min(stops)
    IN [found |-> stops = {},
        oob |-> stops # {} /\ i0 + stop >= Len(d),
        reads |-> {i0 + j : j \in {k \in 0..stop : p.value[k + 1].type = "masked"}},
        cmps |-> 0]

\* A slip: the pass over the masked tokens is left out.
check_position_groups_only(d, i0, p, ce) == check_groups(d, i0, p, ce)

\* One iteration of the loop body up to the test of found.
check_position(d, i0, p, ce) ==
    LET g == check_groups(d, i0, p, ce)
        m == check_masked(d, i0, p)
    IN IF g.oob \/ ~g.found THEN g
       ELSE [found |-> m.found, oob |-> m.oob, reads |-> g.reads \cup m.reads, cmps |-> g.cmps]

\* A slip: the last candidate position, size - pat::size, is left out.
find_in_loop_strict(i0, size, psize) == i0 < size_sub(size, psize)

\* A slip: the pattern's length is left out of the loop bound.
find_in_loop_whole(i0, size, psize) == i0 <= size

\* The loop test i <= size - pat::size.
find_in_loop(i0, size, psize) == i0 <= size_sub(size, psize)

(***************************************************************************)
(* The inputs of the model.                                                *)
(***************************************************************************)
Bytes == {0, 16, 171}

Masks == {mask_byte(16), mask_any(1), mask_any(0), mask_masked(0, 15), mask_cursor}

SeqsUpTo(S, n) == UNION {[1..k -> S] : k \in 0..n}

(***************************************************************************)
(* Spec: compile pattern<Mask...>, then find<Pattern>.                     *)
(***************************************************************************)
Init ==
    /\ prims = <<>>
    /\ masks \in SeqsUpTo(Masks, MaxMasks)
    /\ tokens = <<>>
    /\ str = <<>>
    /\ N = 0
    /\ data \in SeqsUpTo(Bytes, MaxSize)
    /\ step_size \in 0..MaxStep
    /\ cev \in BOOLEAN
    /\ pat = NoPattern
    /\ i = 0
    /\ last = -1
    /\ reads = {}
    /\ cmps = 0
    /\ result = not_found
    /\ pc = "compile"

\* Instantiating pattern<Mask...>; the fold (Mask::size + ...) over an empty
\* pack is ill-formed.
Compile ==
    /\ pc = "compile"
    /\ IF masks = <<>>
       THEN /\ pc' = "ill_formed"
            /\ pat' = pat
       ELSE /\ pc' = "scan"
            /\ pat' = pattern(masks)
    /\ UNCHANGED <<prims, masks, tokens, str, N, data, step_size, cev, i, last, reads, cmps, result>>

\* One iteration of the for loop of find<Pattern>.
FindStep ==
    /\ pc = "scan"
    /\ find_in_loop(i, Len(data), pat.size)
    /\ LET c == check_position(data, i, pat, cev)
       IN /\ last' = i
          /\ reads' = reads \cup c.reads
          /\ cmps' = c.cmps
          /\ IF c.oob
             THEN /\ pc' = IF cev THEN "ill_formed" ELSE "ub"
                  /\ UNCHANGED <<i, result>>
             ELSE IF c.found
             THEN /\ pc' = "done"
                  /\ result' = i + pat.cursor_pos
                  /\ i' = i
             ELSE /\ pc' = "scan"
                  /\ i' = size_add(i, step_size)
                  /\ result' = result
    /\ UNCHANGED <<prims, masks, tokens, str, N, data, step_size, cev, pat>>

\* A slip: the scan that finds nothing returns 0.
FindExit_zero ==
    /\ pc = "scan"
    /\ ~find_in_loop(i, Len(data), pat.size)
    /\ pc' = "done"
    /\ result' = 0
    /\ UNCHANGED <<prims, masks, tokens, str, N, data, step_size, cev, pat, i, last, reads, cmps>>

\* The loop test fails: return not_found.
FindExit ==
    /\ pc = "scan"
    /\ ~find_in_loop(i, Len(data), pat.size)
    /\ pc' = "done"
    /\ result' = not_found
    /\ UNCHANGED <<prims, masks, tokens, str, N, data, step_size, cev, pat, i, last, reads, cmps>>

\* A read outside the buffer at run time is undefined: the call may fault,
\* report the position it stands at, or report not_found.
Undefined ==
    /\ pc = "ub"
    /\ \/ /\ pc' = "crashed"
          /\ result' = result
       \/ /\ pc' = "done"
          /\ result' \in {not_found, i + pat.cursor_pos}
    /\ UNCHANGED <<prims, masks, tokens, str, N, data, step_size, cev, pat, i, last, reads, cmps>>

Next == Compile \/ FindStep \/ FindExit \/ Undefined

Spec == Init /\ [][Next]_vars

(***************************************************************************)
(* SpecPrim: the mask primitives are instantiated from their template      *)
(* arguments, then pattern<Mask...> is compiled and find<Mask...> runs.    *)
(***************************************************************************)
\* 0x1234, 0xFFFF, 0x00FF.
Words == {<<4660>>, <<65535>>, <<255>>}

\* 0x12345678, 0xFFFFFFFF.
Dwords == {<<22136, 4660>>, <<65535, 65535>>}

\* 0x0123456789ABCDEF, 0x8000000000000000.
Qwords == {<<52719, 35243, 17767, 291>>, <<0, 0, 0, 32768>>}

String123 == Prim("string", <<<<"1", "2", "3">>>>)

PrimArgs ==
    {Prim("byte", <<16>>), Prim("byte", <<0>>), Prim("cursor", <<>>),
     Prim("any", <<0>>), Prim("any", <<1>>), Prim("any", <<2>>), String123,
     Prim("sequence", <<0, <<String123, Prim("any", <<1>>)>>>>),
     Prim("sequence", <<3, <<String123, Prim("any", <<1>>)>>>>),
     Prim("sequence", <<2, <<Prim("byte", <<16>>), Prim("cursor", <<>>)>>>>)}
    \cup {Prim("masked", <<n, m>>) : n \in {0, 171}, m \in {0, 15, 254, 255}}
    \cup {Prim("word", <<n>>) : n \in Words}
    \cup {Prim("dword", <<n>>) : n \in Dwords}
    \cup {Prim("qword", <<n>>) : n \in Qwords}

\* STRING of the README with its terminating NUL: sizeof(STRING) bytes.
README_STRING ==
    <<"T", "e", "s", "t", " ", "b", "u", "f", "f", "e", "r", " ", "1", "2", "3", " ",
      "1", "2", "3", " ", "1", "2", "3", ".", "NUL">>

Buffer(s) == [k \in 1..Len(s) |-> Ascii(s[k])]

Buffers == {<<>>, <<0, 16>>, Buffer(README_STRING)}

InitPrim ==
    /\ prims \in SeqsUpTo(PrimArgs, MaxPrims)
    /\ masks = <<>>
    /\ tokens = <<>>
    /\ str = <<>>
    /\ N = 0
    /\ data \in Buffers
    /\ step_size = 1
    /\ cev \in BOOLEAN
    /\ pat = NoPattern
    /\ i = 0
    /\ last = -1
    /\ reads = {}
    /\ cmps = 0
    /\ result = not_found
    /\ pc = "instantiate"

\* The template-ids Mask... are instantiated: each gets its size and value.
InstantiateMasks ==
    /\ pc = "instantiate"
    /\ masks' = [k \in 1..Len(prims) |-> Instantiate(prims[k])]
    /\ pc' = "compile"
    /\ UNCHANGED <<prims, tokens, str, N, data, step_size, cev, pat, i, last, reads, cmps, result>>

NextPrim == InstantiateMasks \/ Compile \/ FindStep \/ FindExit \/ Undefined

SpecPrim == InitPrim /\ [][NextPrim]_vars

(***************************************************************************)
(* SpecMain: the test program, find<mask::string<S>>(TEST_STRING,          *)
(* sizeof(TEST_STRING)), for a few literals S.                             *)
(***************************************************************************)
\* TEST_STRING with its terminating NUL: sizeof(TEST_STRING) bytes.
TEST_STRING ==
    <<"H", "e", "l", "l", "o", ",", " ", "W", "o", "r", "l", "d", "!", " ",
      "T", "h", "i", "s", " ", "i", "s", " ", "a", " ",
      "t", "e", "s", "t", " ", "s", "t", "r", "i", "n", "g", " ",
      "t", "o", " ", "c", "h", "e", "c", "k", " ", "i", "f", " ",
      "t", "h", "e", " ", "p", "a", "t", "t", "e", "r", "n", " ",
      "m", "a", "t", "c", "h", "i", "n", "g", " ",
      "w", "o", "r", "k", "s", ".", "NUL">>

test_string == <<"t", "e", "s", "t", " ", "s", "t", "r", "i", "n", "g">>

MainLiterals ==
    {test_string,
     <<"s", "t", "r", "i", "n", "g">>,
     <<"w", "o", "r", "k", "s", ".">>,
     <<"w", "o", "r", "k", "s", "!">>}

InitMain ==
    /\ prims \in {<<Prim("string", <<S>>)>> : S \in MainLiterals}
    /\ masks = <<>>
    /\ tokens = <<>>
    /\ str = <<>>
    /\ N = 0
    /\ data = Buffer(TEST_STRING)
    /\ step_size \in 1..MaxStep
    /\ cev \in BOOLEAN
    /\ pat = NoPattern
    /\ i = 0
    /\ last = -1
    /\ reads = {}
    /\ cmps = 0
    /\ result = not_found
    /\ pc = "instantiate"

NextMain == InstantiateMasks \/ Compile \/ FindStep \/ FindExit

SpecMain == InitMain /\ [][NextMain]_vars

(***************************************************************************)
(* SpecRaw: find(data, size, pattern, pattern_size, step_size).            *)
(***************************************************************************)
\* The loop test i < size - pattern_size.
raw_in_loop(i0, size, psize) == i0 < size_sub(size, psize)

\* The loop over j: a byte or masked token reads data[i + j]; the break
\* after found = false leaves the switch only, so every token is visited.
raw_check_position(d, i0, toks) ==
    LET need == {j \in 0..(Len(toks) - 1) : toks[j + 1].type \in {"byte", "masked"}}
        outside == {j \in need : i0 + j >= Len(d)}
        stop == IF outside = {} THEN Len(toks) - 1 ELSE Min(outside)
    IN [found |-> /\ outside = {}
                  /\ \A j \in need :
                        IF toks[j + 1].type = "byte"
                        THEN d[i0 + j + 1] = toks[j + 1].byte
                        ELSE BitAnd(d[i0 + j + 1], toks[j + 1].mask) = toks[j + 1].byte,
        oob |-> outside # {},
        reads |-> {i0 + j : j \in {k \in need : k <= stop}},
        cmps |-> 0]

Tokens == {TokenByte(16), TokenWildcard, TokenMasked(0, 15), TokenType("cursor")}

InitRaw ==
    /\ prims = <<>>
    /\ masks = <<>>
    /\ tokens \in SeqsUpTo(Tokens, MaxTokens)
    /\ str = <<>>
    /\ N = 0
    /\ data \in SeqsUpTo(Bytes, MaxSize)
    /\ step_size \in 0..MaxStep
    /\ cev \in BOOLEAN
    /\ pat = NoPattern
    /\ i = 0
    /\ last = -1
    /\ reads = {}
    /\ cmps = 0
    /\ result = not_found
    /\ pc = "raw_scan"

\* One iteration of the for loop of the raw-token find.
RawFindStep ==
    /\ pc = "raw_scan"
    /\ raw_in_loop(i, Len(data), Len(tokens))
    /\ LET c == raw_check_position(data, i, tokens)
       IN /\ last' = i
          /\ reads' = reads \cup c.reads
          /\ IF c.oob
             THEN /\ pc' = IF cev THEN "ill_formed" ELSE "ub"
                  /\ UNCHANGED <<i, result>>
             ELSE IF c.found
             THEN /\ pc' = "done"
                  /\ result' = i
                  /\ i' = i
             ELSE /\ pc' = "raw_scan"
                  /\ i' = size_add(i, step_size)
                  /\ result' = result
    /\ UNCHANGED <<prims, masks, tokens, str, N, data, step_size, cev, pat, cmps>>

\* The loop test fails: return not_found.
RawFindExit ==
    /\ pc = "raw_scan"
    /\ ~raw_in_loop(i, Len(data), Len(tokens))
    /\ pc' = "done"
    /\ result' = not_found
    /\ UNCHANGED <<prims, masks, tokens, str, N, data, step_size, cev, pat, i, last, reads, cmps>>

\* A read outside the buffer at run time is undefined, as in find<Pattern>.
RawUndefined ==
    /\ pc = "ub"
    /\ \/ /\ pc' = "crashed"
          /\ result' = result
       \/ /\ pc' = "done"
          /\ result' \in {not_found, i}
    /\ UNCHANGED <<prims, masks, tokens, str, N, data, step_size, cev, pat, i, last, reads, cmps>>

NextRaw == RawFindStep \/ RawFindExit \/ RawUndefined

SpecRaw == InitRaw /\ [][NextRaw]_vars

(***************************************************************************)
(* SpecEntry: a call of either entry point, the compiled find<Pattern> or  *)
(* the raw-token find; a call of the raw-token find has no compiled        *)
(* pattern and is past compilation.                                        *)
(***************************************************************************)
InitEntry == Init \/ InitRaw

NextEntry ==
    \/ (pc = "compile" \/ pat.compiled) /\ Next
    \/ (pc # "compile" /\ ~pat.compiled) /\ NextRaw

SpecEntry == InitEntry /\ [][NextEntry]_vars

(***************************************************************************)
(* SpecStr: sizeOfPatternString<S>() and tokenizePatternString<S, N>().    *)
(* Both are consteval: an index past the end of S (FixedString throws) or  *)
(* past the N slots of the token array makes the program ill-formed.       *)
(***************************************************************************)
Chars == {" ", "?", "^", "&", "4", "F", "a", "G"}

\* S[k]: data[k] for k < N, where data[size()] is the terminating NUL; the
\* caller has checked that k is no index FixedString throws on.
CharAt(s, k) == IF k < Len(s) THEN s[k + 1] ELSE "NUL"

\* throw_if_invalid_index: index >= N, N being size() + 1.
InvalidIndex(s, k) == k >= Len(s) + 1

is_hex(c) ==
    LET x == Ascii(c)
    IN (x >= 48 /\ x <= 57) \/ (x >= 65 /\ x <= 70) \/ (x >= 97 /\ x <= 102)

\* from_hex returns a uint8_t: what is no digit and no A..F goes through
\* c - 'a' + 10 and wraps.
from_hex(c) ==
    LET x == Ascii(c)
    IN IF x >= 48 /\ x <= 57 THEN x - 48
       ELSE IF x >= 65 /\ x <= 70 THEN x - 65 + 10
       ELSE (x - 97 + 10) % 256

\* A slip: the two digits the wrong way round.
hex_pair_swapped(hi, lo) == BitOr(from_hex(lo) * 16, from_hex(hi)) % 256

\* uint8_t b = from_hex(hi) << 4 | from_hex(lo).
hex_pair(hi, lo) == BitOr(from_hex(hi) * 16, from_hex(lo)) % 256

RECURSIVE size_of_loop(_, _, _)
size_of_loop(s, k, size) ==
    IF k >= Len(s) THEN [ok |-> TRUE, size |-> size]
    ELSE IF CharAt(s, k) = " " THEN size_of_loop(s, k + 1, size)
    ELSE LET k1 == IF is_hex(CharAt(s, k)) THEN k + 1 ELSE k
             k2 == IF k1 + 1 < Len(s) /\ CharAt(s, k1 + 1) = "&" THEN k1 + 3 ELSE k1
         IN IF InvalidIndex(s, k2) THEN [ok |-> FALSE, size |-> size + 1]
            ELSE LET k3 == IF CharAt(s, k2) # "?" /\ CharAt(s, k2) # "^" THEN k2 + 1 ELSE k2
                 IN size_of_loop(s, k3 + 1, size + 1)

sizeOfPatternString(s) == size_of_loop(s, 0, 0)

\* tokens[index] = t on an array of Len(toks) slots.
Store(acc, index, t) ==
    IF index < Len(acc.tokens)
    THEN [acc EXCEPT !.tokens[index + 1] = t]
    ELSE [acc EXCEPT !.ok = FALSE]

RECURSIVE tokenize_loop(_, _, _, _)
tokenize_loop(s, k, index, acc) ==
    IF ~acc.ok \/ k >= Len(s) THEN [acc EXCEPT !.index = index]
    ELSE LET c == CharAt(s, k)
         IN IF c = " " THEN tokenize_loop(s, k + 1, index, acc)
            ELSE IF c = "?" THEN tokenize_loop(s, k + 1, index + 1, Store(acc, index, TokenWildcard))
            ELSE IF c = "^"
                 THEN tokenize_loop(s, k + 1, index + 1, Store(acc, index, TokenType("cursor")))
            ELSE LET byte == hex_pair(c, CharAt(s, k + 1))
                     lit == Store(acc, index, TokenByte(byte))
                     k1 == k + 1
                 IN IF ~lit.ok THEN [lit EXCEPT !.index = index + 1]
                    ELSE IF k1 + 1 < Len(s) /\ CharAt(s, k1 + 1) = "&"
                    THEN IF InvalidIndex(s, k1 + 3) THEN [lit EXCEPT !.ok = FALSE, !.index = index + 1]
                         ELSE LET mask == hex_pair(CharAt(s, k1 + 2), CharAt(s, k1 + 3))
                              IN tokenize_loop(s, k1 + 3 + 1, index + 1,
                                               Store(lit, index, TokenMasked(byte, mask)))
                    ELSE tokenize_loop(s, k1 + 1, index + 1, lit)

tokenizePatternString(s, n) ==
    tokenize_loop(s, 0, 0, [ok |-> TRUE, index |-> 0,
                            tokens |-> [k \in 1..n |-> TokenWildcard]])

\* Pattern strings of the documentation, longer than MaxStr.
Examples ==
    {<<"4", " ", "?", " ">>,
     <<"4", "8", " ", "8", "B", " ", "?", " ", "?", " ", "C", "3">>,
     <<"0", "0", "&", "0", "F", " ", "^", " ", "1", "0">>,
     <<"4", "F", "&", "F", "F">>,
     <<"a", "4", "&", "0", "0", " ", "?">>,
     <<"f", "f", " ", "^", " ", "A", "b", "&", "f", "E">>}

InitStr ==
    /\ prims = <<>>
    /\ masks = <<>>
    /\ tokens = <<>>
    /\ str \in SeqsUpTo(Chars, MaxStr) \cup Examples
    /\ N = 0
    /\ data = <<>>
    /\ step_size = 1
    /\ cev = TRUE
    /\ pat = NoPattern
    /\ i = 0
    /\ last = -1
    /\ reads = {}
    /\ cmps = 0
    /\ result = not_found
    /\ pc = "sizeof"

\* The default template argument N = sizeOfPatternString<S>().
SizeOf ==
    /\ pc = "sizeof"
    /\ LET r == sizeOfPatternString(str)
       IN /\ N' = r.size
          /\ pc' = IF r.ok THEN "tokenize" ELSE "ill_formed"
    /\ UNCHANGED <<prims, masks, tokens, str, data, step_size, cev, pat, i, last, reads, cmps, result>>

\* tokenizePatternString<S, N>().
Tokenize ==
    /\ pc = "tokenize"
    /\ LET r == tokenizePatternString(str, N)
       IN IF r.ok
          THEN /\ tokens' = r.tokens
               /\ pc' = "tokenized"
          ELSE /\ tokens' = tokens
               /\ pc' = "ill_formed"
    /\ UNCHANGED <<prims, masks, str, N, data, step_size, cev, pat, i, last, reads, cmps, result>>

NextStr == SizeOf \/ Tokenize

SpecStr == InitStr /\ [][NextStr]_vars

(***************************************************************************)
(* SpecFindStr: find<FixedString S>(data, size, step_size): the string is  *)
(* tokenized, make_pattern turns the tokens into pattern<Mask...>, and     *)
(* find<Pattern> runs.                                                     *)
(***************************************************************************)
\* A slip: a masked token is unwrapped to a byte, its mask dropped.
unwrapToken_unmasked(t) ==
    IF t.type = "cursor" THEN mask_cursor
    ELSE IF t.type \in {"byte", "masked"} THEN mask_byte(t.byte)
    ELSE mask_any(1)

unwrapToken(t) ==
    IF t.type = "cursor" THEN mask_cursor
    ELSE IF t.type = "byte" THEN mask_byte(t.byte)
    ELSE IF t.type = "masked" THEN mask_masked(t.byte, t.mask)
    ELSE mask_any(1)

unwrapTokens(toks) == [k \in 1..Len(toks) |-> unwrapToken(toks[k])]

FindChars == Chars \ {"a", "G"}

FindBuffers == {<<>>, <<0, 16>>, <<171, 16>>, <<68, 79>>, <<255, 68, 79>>}

InitFindStr ==
    /\ prims = <<>>
    /\ masks = <<>>
    /\ tokens = <<>>
    /\ str \in SeqsUpTo(FindChars, MaxStr) \cup Examples
    /\ N = 0
    /\ data \in FindBuffers
    /\ step_size = 1
    /\ cev \in BOOLEAN
    /\ pat = NoPattern
    /\ i = 0
    /\ last = -1
    /\ reads = {}
    /\ cmps = 0
    /\ result = not_found
    /\ pc = "sizeof"

\* find<std::array pattern> requires pattern.size() > 0; make_pattern<P> is
\* pattern<Mask...> of the unwrapped tokens.
MakePattern ==
    /\ pc = "tokenized"
    /\ IF Len(tokens) = 0
       THEN /\ pc' = "ill_formed"
            /\ masks' = masks
       ELSE /\ pc' = "compile"
            /\ masks' = unwrapTokens(tokens)
    /\ UNCHANGED <<prims, tokens, str, N, data, step_size, cev, pat, i, last, reads, cmps, result>>

NextFindStr ==
    SizeOf \/ Tokenize \/ MakePattern \/ Compile \/ FindStep \/ FindExit \/ Undefined

SpecFindStr == InitFindStr /\ [][NextFindStr]_vars

(***************************************************************************)
(* SpecRender: pattern<Mask...>::to_string() renders the compiled pattern, *)
(* and the rendering is compiled again as a pattern string.                *)
(***************************************************************************)
\* constexpr char hex[] = "0123456789ABCDEF".
hex == <<"0", "1", "2", "3", "4", "5", "6", "7", "8", "9", "A", "B", "C", "D", "E", "F">>

\* A slip: lower-case digits.
hex_to_string_lower(byte) ==
    LET lower == <<"0", "1", "2", "3", "4", "5", "6", "7", "8", "9", "a", "b", "c", "d", "e", "f">>
    IN <<lower[(byte \div 16) + 1], lower[BitAnd(byte, 15) + 1]>>

hex_to_string(byte) == <<hex[(byte \div 16) + 1], hex[BitAnd(byte, 15) + 1]>>

\* The length counted per raw token, minus one, in size_t.
RECURSIVE count_length(_, _, _)
count_length(raw, k, length) ==
    IF k >= Len(raw) THEN length
    ELSE count_length(raw, k + 1,
                      length + (IF raw[k + 1].type = "byte" THEN 3
                                ELSE IF raw[k + 1].type = "masked" THEN 6 ELSE 2))

count_string_length(raw) == size_sub(count_length(raw, 0, 0), 1)

\* The characters the loop of to_string writes, str[index++] by str[index++].
RECURSIVE to_string_loop(_, _, _)
to_string_loop(raw, k, written) ==
    IF k >= Len(raw) THEN written
    ELSE LET t == raw[k + 1]
             chars == IF t.type = "byte" THEN hex_to_string(t.byte)
                      ELSE IF t.type = "masked"
                           THEN hex_to_string(t.byte) \o <<"&">> \o hex_to_string(t.mask)
                      ELSE IF t.type = "wildcard" THEN <<"?">>
                      ELSE <<"^">>
         IN to_string_loop(raw, k + 1, written \o chars \o <<" ">>)

\* to_string<N>() returns a FixedString<N + 1>, N = count_string_length():
\* ok is FALSE when a write, or str[index - 1] = NUL, leaves its N + 1 chars.
to_string(raw) ==
    LET n == count_string_length(raw)
        written == to_string_loop(raw, 0, <<>>)
    IN IF Len(written) >= 1 /\ Len(written) <= size_add(n, 1)
       THEN [ok |-> TRUE, str |-> SubSeq(written, 1, Len(written) - 1)]
       ELSE [ok |-> FALSE, str |-> <<>>]

RenderMasks ==
    Masks \cup {mask_any(2), mask_masked(171, 255), mask_masked(171, 0), mask_masked(27, 15)}

InitRender ==
    /\ prims = <<>>
    /\ masks \in SeqsUpTo(RenderMasks, MaxMasks)
    /\ tokens = <<>>
    /\ str = <<>>
    /\ N = 0
    /\ data = <<>>
    /\ step_size = 1
    /\ cev = TRUE
    /\ pat = NoPattern
    /\ i = 0
    /\ last = -1
    /\ reads = {}
    /\ cmps = 0
    /\ result = not_found
    /\ pc = "compile"

\* Pattern::to_string() of the compiled pattern; the string it returns is
\* then given to mask::pattern<S>.
RenderPattern ==
    /\ pc = "scan"
    /\ LET r == to_string(pat.raw_value)
       IN IF r.ok
          THEN /\ str' = r.str
               /\ pc' = "sizeof"
          ELSE /\ str' = str
               /\ pc' = "ill_formed"
    /\ UNCHANGED <<prims, masks, tokens, N, data, step_size, cev, pat, i, last, reads, cmps, result>>

NextRender == Compile \/ RenderPattern \/ SizeOf \/ Tokenize \/ MakePattern

SpecRender == InitRender /\ [][NextRender]_vars

(***************************************************************************)
(* SpecToString: the free functions to_string(token_t) and                 *)
(* to_string(std::span<const token_t>), as the single header and as        *)
(* include/sinaps/pattern.hpp define them.                                 *)
(***************************************************************************)
to_string_token(token) ==
    CASE token.type = "byte" -> hex_to_string(token.byte)
      [] token.type = "wildcard" -> <<"?">>
      [] token.type = "cursor" -> <<"^">>
      [] token.type = "masked" ->
            hex_to_string(token.byte) \o <<"&">> \o hex_to_string(token.mask)
      [] OTHER -> <<>>

\* str.pop_back() when the string is not empty.
pop_trailing(s) == IF s = <<>> THEN s ELSE SubSeq(s, 1, Len(s) - 1)

\* The single header: every token is followed by a space.
RECURSIVE span_loop(_, _, _)
span_loop(toks, k, s) ==
    IF k > Len(toks) THEN s
    ELSE LET token == toks[k]
         IN span_loop(toks, k + 1,
               CASE token.type = "byte" -> s \o hex_to_string(token.byte) \o <<" ">>
                 [] token.type = "wildcard" -> s \o <<"?", " ">>
                 [] token.type = "cursor" -> s \o <<"^", " ">>
                 [] token.type = "masked" ->
                       s \o hex_to_string(token.byte) \o <<"&">>
                         \o hex_to_string(token.mask) \o <<" ">>
                 [] OTHER -> s)

to_string_span(toks) == pop_trailing(span_loop(toks, 1, <<>>))

\* include/sinaps/pattern.hpp: no space is written after a byte or a
\* masked token.
RECURSIVE span_loop_include(_, _, _)
span_loop_include(toks, k, s) ==
    IF k > Len(toks) THEN s
    ELSE LET token == toks[k]
         IN span_loop_include(toks, k + 1,
               CASE token.type = "byte" -> s \o hex_to_string(token.byte)
                 [] token.type = "wildcard" -> s \o <<"?", " ">>
                 [] token.type = "cursor" -> s \o <<"^", " ">>
                 [] token.type = "masked" ->
                       s \o hex_to_string(token.byte) \o <<"&">>
                         \o hex_to_string(token.mask)
                 [] OTHER -> s)

to_string_span_include(toks) == pop_trailing(span_loop_include(toks, 1, <<>>))

RenderTokens == {TokenByte(171), TokenWildcard, TokenType("cursor"), TokenMasked(27, 15)}

InitToString ==
    /\ prims = <<>>
    /\ masks = <<>>
    /\ tokens \in SeqsUpTo(RenderTokens, MaxTokens)
    /\ str = <<>>
    /\ N = 0
    /\ data = <<>>
    /\ step_size = 1
    /\ cev = FALSE
    /\ pat = NoPattern
    /\ i = 0
    /\ last = -1
    /\ reads = {}
    /\ cmps = 0
    /\ result = not_found
    /\ pc = "to_string"

\* to_string(tokens) of the single header.
RenderSpan ==
    /\ pc = "to_string"
    /\ str' = to_string_span(tokens)
    /\ pc' = "rendered"
    /\ UNCHANGED <<prims, masks, tokens, N, data, step_size, cev, pat, i, last, reads, cmps, result>>

\* to_string(tokens) of include/sinaps/pattern.hpp.
RenderSpanInclude ==
    /\ pc = "to_string"
    /\ str' = to_string_span_include(tokens)
    /\ pc' = "rendered_include"
    /\ UNCHANGED <<prims, masks, tokens, N, data, step_size, cev, pat, i, last, reads, cmps, result>>

\* to_string(tokens[0]).
RenderToken ==
    /\ pc = "to_string"
    /\ Len(tokens) = 1
    /\ str' = to_string_token(tokens[1])
    /\ pc' = "rendered_token"
    /\ UNCHANGED <<prims, masks, tokens, N, data, step_size, cev, pat, i, last, reads, cmps, result>>

NextToString == RenderSpan \/ RenderSpanInclude \/ RenderToken

SpecToString == InitToString /\ [][NextToString]_vars

(***************************************************************************)
(* What a match is, stated per token and independently of the grouping.    *)
(***************************************************************************)
TokenMatches(t, b) ==
    CASE t.type = "byte" -> b = t.byte
      [] t.type = "masked" -> BitAnd(b, t.mask) = t.byte
      [] OTHER -> TRUE

MatchesAt(d, toks, k) ==
    /\ k + Len(toks) <= Len(d)
    /\ \A j \in 1..Len(toks) : TokenMatches(toks[j], d[k + j])

\* The candidate positions: the multiples of step in [0, size - length] at
\* which every token matches.
MatchPositions(d, toks, step) ==
    {k \in 0..(Len(d) - Len(toks)) : k % step = 0 /\ MatchesAt(d, toks, k)}

Cursors(raw) == {k \in 1..Len(raw) : raw[k].type = "cursor"}

\* The tokens of raw that consume a byte and stand before raw position k.
ConsumingBefore(raw, k) == Cardinality({h \in 1..(k - 1) : raw[h].type # "cursor"})

Returned == pc = "done"

(***************************************************************************)
(* C1: for a compiled pattern no longer than the buffer and a stride >= 1, *)
(* find returns i + anchor_offset for the smallest multiple i of the       *)
(* stride in [0, size - length] at which every token matches, and          *)
(* not_found exactly when there is no such i; it never leaves the buffer.  *)
(***************************************************************************)
C1_FindFirstMatch ==
    (pat.compiled /\ pat.size <= Len(data) /\ step_size >= 1) =>
        /\ pc \in {"scan", "done"}
        /\ Returned =>
             LET found == MatchPositions(data, pat.value, step_size)
             IN IF found = {} THEN result = not_found
                ELSE result = Min(found) + pat.cursor_pos /\ result # not_found

\* A match at position 2, reached with stride 2, reported through a cursor.
C1_Witness ==
    /\ Returned /\ pat.compiled /\ pat.size <= Len(data)
    /\ step_size = 2 /\ last = 2 /\ pat.cursor_pos = 1 /\ result = 3

(***************************************************************************)
(* C2: when the pattern is longer than the buffer, find returns not_found  *)
(* at once: no candidate position is examined and no byte is read.         *)
(***************************************************************************)
C2_OversizedNotFound ==
    (pat.compiled /\ pat.size > Len(data) /\ step_size >= 1) =>
        /\ last = -1
        /\ reads = {}
        /\ pc \in {"scan", "done"}
        /\ Returned => result = not_found

(***************************************************************************)
(* C3: the raw-token find returns the lowest candidate start (a multiple   *)
(* of step_size, 0 <= start <= size - pattern_size) at which every token   *)
(* matches, a match ending on the last byte of the buffer included, and    *)
(* not_found only when the pattern occurs at no candidate start.  (Stated  *)
(* for non-empty token lists without a cursor, where what "matches" means  *)
(* is not in question.)                                                    *)
(***************************************************************************)
C3_RawFindFirstMatch ==
    (/\ Returned /\ step_size >= 1
     /\ 1 <= Len(tokens) /\ Len(tokens) <= Len(data) /\ Cursors(tokens) = {}) =>
        LET found == MatchPositions(data, tokens, step_size)
        IN result = IF found = {} THEN not_found ELSE Min(found)

(***************************************************************************)
(* C4: find with a compiled pattern of length 0 returns offset 0 for every *)
(* buffer and every stride >= 1.                                           *)
(***************************************************************************)
C4_EmptyPatternAtZero ==
    (pat.compiled /\ pat.size = 0 /\ step_size >= 1) =>
        /\ pc \in {"scan", "done"}
        /\ Returned => result = 0

(***************************************************************************)
(* C5: find rejects a stride of 0: with stride 0 it neither returns a      *)
(* match offset nor stands again at the position it has just examined.     *)
(***************************************************************************)
C5_ZeroStrideRejected ==
    step_size = 0 =>
        /\ ~(Returned /\ result >= 0)
        /\ ~(pc = "scan" /\ last = i)

(***************************************************************************)
(* C6: for every compiled pattern and every stride >= 1 find terminates by *)
(* returning an offset or not_found: the call never ends in any other way. *)
(* (A call the compiler rejects never runs, and is not held against the    *)
(* claim.)                                                                 *)
(***************************************************************************)
C6_Terminates ==
    (pat.compiled /\ step_size >= 1) =>
        (pc \in {"done", "ill_formed"} \/ ENABLED Next)

(***************************************************************************)
(* C7: 0 <= anchor_offset < length whenever length > 0, wherever the       *)
(* anchor stands; anchor_offset = 0 when the pattern has no anchor.        *)
(***************************************************************************)
C7_AnchorOffsetBound ==
    pat.compiled =>
        /\ pat.size > 0 => (0 <= pat.cursor_pos /\ pat.cursor_pos < pat.size)
        /\ Cursors(pat.raw_value) = {} => pat.cursor_pos = 0

\* The pattern "00&0F ^ 10" as mask primitives.
C8_Example == <<mask_masked(0, 15), mask_cursor, mask_byte(16)>>

(***************************************************************************)
(* C8: for a pattern with exactly one anchor, compilation removes the      *)
(* anchor and sets anchor_offset to the number of byte-consuming tokens    *)
(* before it, and a match starting at i is reported as i + that number;    *)
(* "00&0F ^ 10" reports 1 on [0x00, 0x10] and not_found on [0xAB, 0x10].   *)
(***************************************************************************)
C8_SingleAnchorOffset ==
    /\ (pat.compiled /\ Cardinality(Cursors(pat.raw_value)) = 1) =>
          LET k == CHOOSE c \in Cursors(pat.raw_value) : TRUE
              raw == pat.raw_value
          IN /\ pat.value = SubSeq(raw, 1, k - 1) \o SubSeq(raw, k + 1, Len(raw))
             /\ pat.size = Len(raw) - 1
             /\ pat.cursor_pos = ConsumingBefore(raw, k)
             /\ (Returned /\ pat.size <= Len(data) /\ result # not_found) =>
                   /\ MatchesAt(data, pat.value, last)
                   /\ result = last + ConsumingBefore(raw, k)
    /\ (masks = C8_Example /\ Returned /\ data = <<0, 16>>) => result = 1
    /\ (masks = C8_Example /\ Returned /\ data = <<171, 16>>) => result = not_found

C8_Witness ==
    /\ masks = C8_Example /\ data = <<0, 16>> /\ step_size = 1
    /\ Returned /\ last = 0 /\ result = 1

GroupIndices(g) == g.offset..(g.offset + g.count - 1)

LiteralIndices(value) == {k \in 0..(Len(value) - 1) : value[k + 1].type = "byte"}

(***************************************************************************)
(* C9: groups is an ordered list of (offset, count), count >= 1 and        *)
(* offset + count <= length, of pairwise disjoint index ranges whose union *)
(* is exactly the set of Literal indices of tokens, each range maximal.    *)
(***************************************************************************)
C9_GroupsPartitionLiterals ==
    pat.compiled =>
        LET gs == pat.groups
            lits == LiteralIndices(pat.value)
        IN /\ \A g \in 1..Len(gs) : gs[g].count >= 1 /\ gs[g].offset + gs[g].count <= pat.size
           /\ \A g, h \in 1..Len(gs) :
                 g < h => gs[g].offset + gs[g].count <= gs[h].offset
           /\ UNION {GroupIndices(gs[g]) : g \in 1..Len(gs)} = lits
           /\ \A g \in 1..Len(gs) :
                 /\ (gs[g].offset - 1) \notin lits
                 /\ (gs[g].offset + gs[g].count) \notin lits
           /\ lits = {} => gs = <<>>

\* Two groups of one isolated Literal each, the second closing the pattern.
C9_Witness ==
    /\ pat.compiled
    /\ pat.groups = <<group_t(0, 1), group_t(2, 1)>>

\* An element of the string (it starts the string or follows a space) that
\* opens with a hex digit not followed by a second one.
SingleDigitByte(s) ==
    \E k \in 0..(Len(s) - 1) :
        /\ k = 0 \/ CharAt(s, k - 1) = " "
        /\ is_hex(CharAt(s, k))
        /\ ~is_hex(CharAt(s, k + 1))

(***************************************************************************)
(* C10: a pattern string in which a byte is written with a single hex      *)
(* digit does not compile: no token sequence is produced for it.           *)
(***************************************************************************)
C10_SingleDigitRejected == SingleDigitByte(str) => pc # "tokenized"

\* An element of the string that is a two-hex-digit byte followed by '&' and
\* then by something other than two hex digits.
DanglingAmp(s) ==
    \E k \in 0..(Len(s) - 1) :
        /\ k = 0 \/ CharAt(s, k - 1) = " "
        /\ is_hex(CharAt(s, k)) /\ is_hex(CharAt(s, k + 1))
        /\ CharAt(s, k + 2) = "&"
        /\ ~(is_hex(CharAt(s, k + 3)) /\ is_hex(CharAt(s, k + 4)))

(***************************************************************************)
(* C11: a pattern string in which '&' follows a two-hex-digit byte but is  *)
(* not followed by two hex mask digits (a dangling '&') does not compile:  *)
(* no token with some mask is produced for it.                             *)
(***************************************************************************)
C11_DanglingAmpRejected == DanglingAmp(str) => pc # "tokenized"

\* A character that is no space, no '?', no '^', no '&' and no hex digit.
UnexpectedChar(s) ==
    \E k \in 1..Len(s) : s[k] \notin {" ", "?", "^", "&"} /\ ~is_hex(s[k])

(***************************************************************************)
(* C12: a pattern string that contains an unexpected character does not    *)
(* compile: no token sequence (and so no Literal derived from the          *)
(* character) is produced for it.                                          *)
(***************************************************************************)
C12_UnexpectedCharRejected == UnexpectedChar(str) => pc # "tokenized"

(***************************************************************************)
(* C13: a token constructed from (value, mask) has kind Wildcard when the  *)
(* mask is 0x00, Literal when it is 0xFF and Masked for every other mask;  *)
(* constructed from a value alone it is a Literal, from no argument a      *)
(* Wildcard, and from the anchor marker an Anchor.                         *)
(***************************************************************************)
C13_TokenConstruction ==
    \A k \in 1..Len(masks) :
        LET d == prims[k]
            t == masks[k].value
        IN /\ d.kind = "masked" =>
                 /\ Len(t) = 1
                 /\ t[1].type = "wildcard" <=> d.targs[2] = 0
                 /\ t[1].type = "byte" <=> d.targs[2] = 255
                 /\ t[1].type = "masked" <=> d.targs[2] \notin {0, 255}
           /\ d.kind = "byte" => Len(t) = 1 /\ t[1].type = "byte" /\ t[1].byte = d.targs[1]
           /\ d.kind = "any" => \A j \in 1..Len(t) : t[j].type = "wildcard"
           /\ d.kind = "cursor" => Len(t) = 1 /\ t[1].type = "cursor"

\* masked<0xAB, 0xFF> and masked<0xAB, 0x00> instantiated and compiled.
C13_Witness ==
    /\ prims = <<Prim("masked", <<171, 255>>), Prim("masked", <<171, 0>>)>>
    /\ pat.compiled
    /\ pat.value[1].type = "byte" /\ pat.value[2].type = "wildcard"

\* Byte k (k from 0) of an integer held as 16-bit limbs.
ByteOf(n, k) == (n[(k \div 2) + 1] \div (IF k % 2 = 0 THEN 1 ELSE 256)) % 256

WidthOf(kind) == CASE kind = "word" -> 2 [] kind = "dword" -> 4 [] kind = "qword" -> 8

(***************************************************************************)
(* C14: word<N>, dword<N> and qword<N> expand to exactly 2, 4 and 8        *)
(* Literal tokens, and token k (k from 0) has the value (N >> 8k) & 0xFF:  *)
(* least significant byte first.                                           *)
(***************************************************************************)
C14_LittleEndian ==
    \A k \in 1..Len(masks) :
        prims[k].kind \in {"word", "dword", "qword"} =>
            LET w == WidthOf(prims[k].kind)
                t == masks[k].value
            IN /\ masks[k].size = w
               /\ Len(t) = w
               /\ \A j \in 0..(w - 1) :
                     t[j + 1].type = "byte" /\ t[j + 1].byte = ByteOf(prims[k].targs[1], j)

\* qword<0x0123456789ABCDEF> and dword<0x12345678> compiled into one pattern.
C14_Witness ==
    /\ prims = <<Prim("qword", <<<<52719, 35243, 17767, 291>>>>),
                 Prim("dword", <<<<22136, 4660>>>>)>>
    /\ pat.compiled
    /\ [j \in 1..12 |-> pat.value[j].byte]
          = <<239, 205, 171, 137, 103, 69, 35, 1, 120, 86, 52, 18>>

\* The concatenation of a list of token lists.
RECURSIVE Concat(_)
Concat(ss) == IF ss = <<>> THEN <<>> ELSE Head(ss) \o Concat(Tail(ss))

RECURSIVE Sum(_)
Sum(ns) == IF ns = <<>> THEN 0 ELSE Head(ns) + Sum(Tail(ns))

README_Pattern == <<Prim("sequence", <<3, <<String123, Prim("any", <<1>>)>>>>)>>

(***************************************************************************)
(* C15: sequence<N, primitives...> expands to the concatenation of the     *)
(* inner primitives' expansions, in order, repeated exactly N times, and   *)
(* its size is N times the sum of the inner sizes; for N = 0 the expansion *)
(* is empty and the size 0.  find<sequence<3, string<"123">, any>> on      *)
(* "Test buffer 123 123 123." returns 12.                                  *)
(***************************************************************************)
C15_SequenceExpansion ==
    /\ \A k \in 1..Len(masks) :
          prims[k].kind = "sequence" =>
              LET n == prims[k].targs[1]
                  inner == [j \in 1..Len(prims[k].targs[2]) |-> Instantiate(prims[k].targs[2][j])]
                  once == Concat([j \in 1..Len(inner) |-> inner[j].value])
                  t == masks[k].value
              IN /\ Len(t) = n * Len(once)
                 /\ \A j \in 1..Len(t) : t[j] = once[((j - 1) % Len(once)) + 1]
                 /\ masks[k].size = n * Sum([j \in 1..Len(inner) |-> inner[j].size])
                 /\ n = 0 => t = <<>> /\ masks[k].size = 0
    /\ (prims = README_Pattern /\ data = Buffer(README_STRING) /\ Returned) => result = 12

\* The call of the README has returned 12, found at candidate position 12.
C15_Witness ==
    /\ prims = README_Pattern /\ data = Buffer(README_STRING)
    /\ pat.compiled /\ pat.size = 12 /\ Returned /\ last = 12 /\ result = 12

NotCursor(t) == t.type # "cursor"

(***************************************************************************)
(* C16: for every compiled pattern, tokens (pattern::value) is the raw     *)
(* token sequence with every Anchor removed and the order of the others    *)
(* kept, and length (pattern::size) is the number of tokens in it: every   *)
(* slot of tokens is filled exactly once and none is written out of range. *)
(***************************************************************************)
C16_TokensAreRawWithoutAnchors ==
    pat.compiled =>
        LET kept == SelectSeq(pat.raw_value, NotCursor)
        IN /\ pat.raw_value = Concat([k \in 1..Len(masks) |-> masks[k].value])
           /\ pat.value = kept
           /\ pat.size = Len(kept)
           /\ Len(pat.value) = pat.size
           /\ pat.filled = pat.size
           /\ pat.in_range

\* sequence<2, byte<0x10>, cursor>, any<2>: six raw tokens, four of them kept.
C16_Witness ==
    /\ prims = <<Prim("sequence", <<2, <<Prim("byte", <<16>>), Prim("cursor", <<>>)>>>>),
                 Prim("any", <<2>>)>>
    /\ pat.compiled /\ pat.raw_size = 6 /\ pat.size = 4
    /\ pat.value = <<TokenByte(16), TokenByte(16), TokenWildcard, TokenWildcard>>

(***************************************************************************)
(* The string syntax, stated independently of the tokenizer: elements      *)
(* separated by single spaces, each "?", "^", "XX" or "XX&YY".             *)
(***************************************************************************)
RECURSIVE Split(_)
Split(s) ==
    IF \A k \in 1..Len(s) : s[k] # " " THEN <<s>>
    ELSE LET k == Min({j \in 1..Len(s) : s[j] = " "})
         IN <<SubSeq(s, 1, k - 1)>> \o Split(SubSeq(s, k + 1, Len(s)))

UpperDigits == <<"0", "1", "2", "3", "4", "5", "6", "7", "8", "9", "A", "B", "C", "D", "E", "F">>

LowerDigits == <<"0", "1", "2", "3", "4", "5", "6", "7", "8", "9", "a", "b", "c", "d", "e", "f">>

IsDigit(c) == \E v \in 1..16 : UpperDigits[v] = c \/ LowerDigits[v] = c

DigitValue(c) == (CHOOSE v \in 1..16 : UpperDigits[v] = c \/ LowerDigits[v] = c) - 1

ByteValue(hi, lo) == 16 * DigitValue(hi) + DigitValue(lo)

IsElement(e) ==
    \/ e = <<"?">>
    \/ e = <<"^">>
    \/ Len(e) = 2 /\ IsDigit(e[1]) /\ IsDigit(e[2])
    \/ /\ Len(e) = 5 /\ e[3] = "&"
       /\ IsDigit(e[1]) /\ IsDigit(e[2]) /\ IsDigit(e[4]) /\ IsDigit(e[5])

WellFormed(s) == s # <<>> /\ \A k \in 1..Len(Split(s)) : IsElement(Split(s)[k])

\* The token an element denotes.
ElementToken(e) ==
    IF e = <<"?">> THEN TokenWildcard
    ELSE IF e = <<"^">> THEN TokenType("cursor")
    ELSE IF Len(e) = 2 THEN TokenByte(ByteValue(e[1], e[2]))
    ELSE TokenMasked(ByteValue(e[1], e[2]), ByteValue(e[4], e[5]))

\* Same kind, and the same value and mask where the kind has them.
SameToken(a, b) ==
    /\ a.type = b.type
    /\ a.type \in {"byte", "masked"} => a.byte = b.byte
    /\ a.type = "masked" => a.mask = b.mask

(***************************************************************************)
(* C17: tokenizing a well-formed pattern string yields, left to right,     *)
(* exactly one token per element: two hex digits of either case a Literal  *)
(* of that value, '?' a Wildcard, '^' an Anchor, 'XX&YY' the token         *)
(* constructed from value XX and mask YY; the count of                     *)
(* sizeOfPatternString equals the number of tokens tokenizePatternString   *)
(* writes.                                                                 *)
(***************************************************************************)
C17_TokenizeWellFormed ==
    WellFormed(str) =>
        LET elements == Split(str)
        IN /\ pc # "ill_formed"
           /\ pc \in {"tokenize", "tokenized"} => N = Len(elements)
           /\ pc = "tokenized" =>
                 /\ Len(tokens) = Len(elements)
                 /\ \A k \in 1..Len(elements) : SameToken(tokens[k], ElementToken(elements[k]))
                 /\ tokenizePatternString(str, N).index = N

\* "ff ^ Ab&fE" tokenized: a Literal, an Anchor and a Masked token.
C17_Witness ==
    /\ str = <<"f", "f", " ", "^", " ", "A", "b", "&", "f", "E">>
    /\ pc = "tokenized"
    /\ tokens = <<TokenByte(255), TokenType("cursor"), TokenMasked(171, 254)>>

\* The mask primitive that denotes a token: byte for a Literal, any for a
\* Wildcard, masked for a Masked token, cursor for an Anchor.
DenotedPrim(t) ==
    CASE t.type = "byte" -> Prim("byte", <<t.byte>>)
      [] t.type = "wildcard" -> Prim("any", <<1>>)
      [] t.type = "masked" -> Prim("masked", <<t.byte, t.mask>>)
      [] t.type = "cursor" -> Prim("cursor", <<>>)

\* The compiled pattern of the primitive list a well-formed string denotes.
PrimitiveForm(s) ==
    pattern([k \in 1..Len(Split(s)) |-> Instantiate(DenotedPrim(ElementToken(Split(s)[k])))])

(***************************************************************************)
(* C18: compiling a well-formed pattern string yields the same compiled    *)
(* pattern (tokens, length, groups, anchor_offset) as compiling the list   *)
(* of mask primitives that denotes the same tokens, so find gives the same *)
(* result for both forms on every buffer.                                  *)
(***************************************************************************)
C18_StringFormIsPrimitiveForm ==
    WellFormed(str) =>
        /\ ~pat.compiled => pc # "ill_formed"
        /\ pat.compiled =>
              LET p == PrimitiveForm(str)
              IN /\ pat.value = p.value
                 /\ pat.size = p.size
                 /\ pat.groups = p.groups
                 /\ pat.cursor_pos = p.cursor_pos
                 /\ pat = p
                 /\ (Returned /\ p.size <= Len(data)) =>
                       LET found == MatchPositions(data, p.value, step_size)
                       IN result = IF found = {} THEN not_found ELSE Min(found) + p.cursor_pos

\* find<"00&0F ^ 10"> on [0x00, 0x10] has returned 1, as find<masked<0x00,
\* 0x0F>, cursor, byte<0x10>> does.
C18_Witness ==
    /\ str = <<"0", "0", "&", "0", "F", " ", "^", " ", "1", "0">>
    /\ data = <<0, 16>>
    /\ masks = C8_Example
    /\ Returned /\ result = 1

RECURSIVE Join(_)
Join(ss) ==
    IF ss = <<>> THEN <<>>
    ELSE IF Len(ss) = 1 THEN Head(ss)
    ELSE Head(ss) \o <<" ">> \o Join(Tail(ss))

\* What a token is written as: a Literal as two upper-case hex digits, a
\* Wildcard as '?', an Anchor as '^', a Masked token as XX&YY.
Written(t) ==
    LET digits(b) == <<UpperDigits[(b \div 16) + 1], UpperDigits[(b % 16) + 1]>>
    IN CASE t.type = "byte" -> digits(t.byte)
         [] t.type = "wildcard" -> <<"?">>
         [] t.type = "cursor" -> <<"^">>
         [] t.type = "masked" -> digits(t.byte) \o <<"&">> \o digits(t.mask)

Rendered(raw) == Join([k \in 1..Len(raw) |-> Written(raw[k])])

(***************************************************************************)
(* C19: for every non-empty pattern p expressible in the string syntax,    *)
(* render(compile(render(p))) = render(p), render being                    *)
(* pattern::to_string: a token built with mask 0xFF renders as a plain     *)
(* two-hex-digit literal, one built with mask 0x00 as '?', anchors as '^'  *)
(* in their original position, and hex digits render upper case.          *)
(***************************************************************************)
C19_RenderRoundTrip ==
    /\ (pat.compiled /\ pat.raw_size > 0) => pc # "ill_formed"
    /\ str # <<>> =>
          /\ WellFormed(str)
          /\ pc = "sizeof" => str = Rendered(pat.raw_value)
          /\ pc = "scan" => to_string(pat.raw_value) = [ok |-> TRUE, str |-> str]

\* masked<0xAB, 0xFF>, cursor, masked<0xAB, 0x00> was rendered as "AB ^ ?",
\* the rendering compiled, and the result rendered again.
C19_Witness ==
    /\ pc = "sizeof"
    /\ tokens = <<TokenByte(171), TokenType("cursor"), TokenWildcard>>
    /\ pat.raw_value = <<TokenByte(171), TokenType("cursor"), TokenWildcard>>
    /\ str = <<"A", "B", " ", "^", " ", "?">>

\* The candidate positions of the scan at which every token matches; with a
\* stride of 0 position 0 is the only candidate.
CandidateMatches(d, toks, step) ==
    {k \in 0..(Len(d) - Len(toks)) :
        /\ step = 0 => k = 0
        /\ step > 0 => k % step = 0
        /\ MatchesAt(d, toks, k)}

(***************************************************************************)
(* C20: not_found is the negative value -1, in the signed domain of the    *)
(* offsets; every value find returns for a match is >= 0, so a match, one  *)
(* at offset 0 included, never equals the sentinel, and the sentinel is    *)
(* returned only when no candidate position matched.                       *)
(***************************************************************************)
C20_SentinelDistinct ==
    /\ not_found = -1
    /\ Returned =>
          /\ result = not_found \/ result >= 0
          /\ (result # not_found /\ pat.size <= Len(data)) =>
                /\ MatchesAt(data, pat.value, last)
                /\ result = last + pat.cursor_pos
          /\ (pat.size <= Len(data) /\ CandidateMatches(data, pat.value, step_size) # {}) =>
                result >= 0
          /\ result = not_found => CandidateMatches(data, pat.value, step_size) = {}

\* A match of a one-token pattern at offset 0 has been returned as 0.
C20_Witness ==
    /\ Returned /\ pat.compiled /\ pat.size = 1 /\ Len(data) >= 1
    /\ MatchesAt(data, pat.value, 0)
    /\ last = 0 /\ result = 0

\* The tokens of toks that consume a buffer byte: toks with its anchors removed.
WithoutAnchors(toks) == SelectSeq(toks, NotCursor)

(***************************************************************************)
(* C21: anchor tokens are zero-width in every find entry point, the        *)
(* raw-token find included: a position the raw-token find reports as a     *)
(* match is a position at which the same tokens with the anchors removed   *)
(* match, spanning as many buffer bytes as there are non-anchor tokens.    *)
(***************************************************************************)
C21_AnchorsZeroWidth ==
    (/\ Returned
     /\ Len(tokens) <= Len(data)
     /\ Cursors(tokens) # {}
     /\ result # not_found) =>
        MatchesAt(data, WithoutAnchors(tokens), result)

\* The call of the test program: string<"test string"> over TEST_STRING,
\* with the default stride.
MainCall ==
    /\ prims = <<Prim("string", <<test_string>>)>>
    /\ data = Buffer(TEST_STRING)
    /\ step_size = 1

\* The indices at which test_string stands in TEST_STRING.
SubstringAt ==
    {k \in 0..(Len(TEST_STRING) - Len(test_string)) :
        \A j \in 1..Len(test_string) : TEST_STRING[k + j] = test_string[j]}

\* C22 as written: the call returns 44.
C22_Returns44 == (MainCall /\ Returned) => result = 44

(***************************************************************************)
(* C22: find with the literal pattern string<"test string"> over the ASCII *)
(* bytes of "Hello, World! This is a test string to check if the pattern   *)
(* matching works." returns 24, the index of the substring in that buffer. *)
(***************************************************************************)
C22_Returns24 ==
    /\ Len(TEST_STRING) = 76
    /\ SubstringAt = {24}
    /\ MainCall => pc \in {"instantiate", "compile", "scan", "done"}
    /\ (MainCall /\ Returned) => result = 24

\* The test program's call has returned 24 at run time.
C22_Witness == MainCall /\ Returned /\ ~cev /\ last = 24 /\ result = 24

\* The raw position of the last anchor of raw (0 when there is none).
LastCursor(raw) ==
    IF Cursors(raw) = {} THEN 0 ELSE CHOOSE k \in Cursors(raw) : \A h \in Cursors(raw) : h <= k

(***************************************************************************)
(* C23: when a pattern contains more than one anchor, compilation records  *)
(* only the last anchor's position: anchor_offset (cursor_pos) equals the  *)
(* index within tokens (anchors removed) at which the last anchor stood,   *)
(* the number of byte-consuming tokens that precede the last anchor.       *)
(***************************************************************************)
C23_LastAnchorOffset ==
    (pat.compiled /\ Cardinality(Cursors(pat.raw_value)) > 1) =>
        pat.cursor_pos = ConsumingBefore(pat.raw_value, LastCursor(pat.raw_value))

(***************************************************************************)
(* C24: to_string over a sequence of tokens renders every token in         *)
(* pattern-string form (two hex digits for a Literal, '?' for a Wildcard,  *)
(* '^' for an Anchor, XX&YY for a Masked token), separates consecutive     *)
(* tokens by exactly one space, ends without a trailing space and drops no *)
(* character of any token; the result for a one-token sequence equals      *)
(* to_string of that token.                                                *)
(***************************************************************************)
C24_SpanRendering ==
    /\ pc \in {"rendered", "rendered_include"} =>
          /\ str = Rendered(tokens)
          /\ Len(tokens) = 1 => str = to_string_token(tokens[1])
    /\ pc = "rendered_token" => str = Written(tokens[1])

\* An empty primitive list, or an empty pattern string and its empty token
\* list.
EmptyPattern == masks = <<>> /\ tokens = <<>> /\ str = <<>>

(***************************************************************************)
(* C25: compiling an empty primitive list or an empty pattern string is    *)
(* legal: it is accepted without failure and yields a compiled pattern     *)
(* with length == 0, an empty groups list and anchor_offset == 0, which    *)
(* find then accepts.                                                      *)
(***************************************************************************)
C25_EmptyPatternLegal ==
    EmptyPattern =>
        /\ pc # "ill_formed"
        /\ pc \in {"scan", "done"} =>
              /\ pat.compiled
              /\ pat.size = 0
              /\ pat.groups = <<>>
              /\ pat.cursor_pos = 0

\* The values find can be about to return, and whether it can fault, from
\* the current state (compilation returns nothing).
NextReturns ==
    IF pc = "compile" THEN {}
    ELSE {v \in -1..(MaxSize + MaxMasks) : ENABLED (Next /\ pc' = "done" /\ result' = v)}

NextFaults == pc # "compile" /\ ENABLED (Next /\ pc' = "crashed")

(***************************************************************************)
(* C26: find is deterministic: two runs on identical (buffer, pattern,     *)
(* stride) return identical results, and the result depends on nothing but *)
(* those three inputs: at every point of a call at most one outcome is     *)
(* possible, so that two runs from the same inputs cannot part.            *)
(***************************************************************************)
C26_Deterministic ==
    Cardinality(NextReturns) + (IF NextFaults THEN 1 ELSE 0) <= 1

\* The groups of p (by index) that differ from the buffer at position k.
MismatchingGroups(d, p, k) ==
    {g \in 1..Len(p.groups) :
        \E j \in 0..(p.groups[g].count - 1) :
            d[k + j + p.groups[g].offset + 1] # p.value[j + p.groups[g].offset + 1].byte}

\* The buffer positions of the Masked tokens of p at position k.
MaskedIndices(p, k) == {k + j : j \in {h \in 0..(p.size - 1) : p.value[h + 1].type = "masked"}}

(***************************************************************************)
(* C27: at each candidate position the compiled find checks in two ordered *)
(* passes: groups are compared in order and, after the first group that    *)
(* mismatches, no remaining group is compared at that position, in both    *)
(* the block-comparison and the byte-by-byte (constant-evaluated) branch;  *)
(* the Masked-token pass runs only if every group matched, and a position  *)
(* once disqualified is never accepted.                                    *)
(***************************************************************************)
C27_ShortCircuit ==
    (pat.compiled /\ last >= 0 /\ last + pat.size <= Len(data)) =>
        LET bad == MismatchingGroups(data, pat, last)
        IN /\ cmps = IF bad = {} THEN Len(pat.groups) ELSE Min(bad)
           /\ (bad # {} /\ last = 0) => reads \cap MaskedIndices(pat, 0) = {}
           /\ bad # {} => ~(Returned /\ result = last + pat.cursor_pos)

\* The buffer positions under the tokens of the given type, for p at k.
IndicesOf(p, k, type) == {k + j : j \in {h \in 0..(p.size - 1) : p.value[h + 1].type = type}}

\* The check at position last accepted: find returned from it.
Accepted == Returned /\ result = last + pat.cursor_pos

(***************************************************************************)
(* C28: for every compiled pattern, buffer and candidate position i with   *)
(* i + length <= size, the grouped two-pass check (every group block-equal *)
(* to the pattern bytes, then every Masked position satisfying             *)
(* (byte & mask) == value) accepts i if and only if a per-token check of   *)
(* all tokens accepts i; no Literal token escapes comparison and no        *)
(* Wildcard position is ever compared.                                     *)
(***************************************************************************)
C28_GroupedCheckIsPerToken ==
    (pat.compiled /\ last >= 0 /\ last + pat.size <= Len(data)) =>
        /\ Accepted <=> MatchesAt(data, pat.value, last)
        /\ last = 0 =>
              /\ reads \cap IndicesOf(pat, 0, "wildcard") = {}
              /\ Accepted =>
                    IndicesOf(pat, 0, "byte") \cup IndicesOf(pat, 0, "masked") \subseteq reads

\* A Literal, a Wildcard and a Masked token were checked at position 0 of
\* 10 AB 10 and the position was accepted.
C28_Witness ==
    /\ pat.compiled
    /\ pat.value = <<TokenByte(16), TokenWildcard, TokenMasked(0, 15)>>
    /\ data = <<16, 171, 16>>
    /\ last = 0
    /\ Accepted

\* The length of the pattern of the call: pat::size of the compiled
\* pattern, pattern_size of the raw-token find.
PatternLength == IF pat.compiled THEN pat.size ELSE Len(tokens)

(***************************************************************************)
(* C29: whenever the pattern length is <= the buffer size and stride >= 1, *)
(* every buffer index read by find (in the group comparison, in the Masked *)
(* pass, and in the raw-token scan) lies in [0, size): no call reads       *)
(* outside the caller's buffer, whatever the stride.                       *)
(***************************************************************************)
C29_ReadsInsideBuffer ==
    (PatternLength <= Len(data) /\ step_size >= 1) =>
        /\ reads \subseteq 0..(Len(data) - 1)
        /\ pc \notin {"ub", "crashed"}

\* A one-byte pattern was scanned with stride 2 over three bytes, reading
\* the first and the last byte, and was not found.
C29_Witness ==
    /\ pat.compiled /\ pat.size = 1 /\ pat.raw_size = 1
    /\ Len(data) = 3 /\ step_size = 2
    /\ reads = {0, 2}
    /\ Returned /\ result = not_found

\* A Masked token whose value has a bit set outside its mask.
ValueOutsideMask(t) == t.type = "masked" /\ BitAnd(t.byte, 255 - t.mask) # 0

(***************************************************************************)
(* C30: token construction does not normalize value against mask: a Masked *)
(* token whose value has a bit set outside its mask (value & ~mask != 0,   *)
(* mask not 0x00 or 0xFF) matches no data byte, so any pattern containing  *)
(* such a token yields not_found on every buffer.                          *)
(***************************************************************************)
C30_ValueOutsideMaskNeverFound ==
    (pat.compiled /\ \E k \in 1..pat.size : ValueOutsideMask(pat.value[k])) =>
        /\ \A b \in 0..255 : ~TokenMatches(CHOOSE t \in {pat.value[k] : k \in 1..pat.size} : ValueOutsideMask(t), b)
        /\ pc \in {"scan", "done"}
        /\ Returned => result = not_found

====
